---- MODULE Spec2Model ----
(***************************************************************************)
(* Model of internal/endpoints/payloads.go of payload-tracker-go: the      *)
(* three HTTP handlers Payloads, RequestIdPayloads and PayloadArchiveLink, *)
(* the package-level variable verbosity they share, and the collaborators  *)
(* they call (initQuery, the validators, the storage collaborator and the  *)
(* storage broker).                                                        *)
(*                                                                         *)
(* Strings are TLA+ strings: messages are built by concatenation, as the   *)
(* handlers build them, and JSON texts are produced by an encoder and read *)
(* back by a decoder.                                                      *)
(*                                                                         *)
(* A handler runs as one action up to the point where it blocks on shared  *)
(* state or on the storage broker: RequestIdPayloads is split between its  *)
(* write (line 86) and its read (line 106) of verbosity, PayloadArchiveLink*)
(* at http.DefaultClient.Do (line 146).  The exchange of the request that  *)
(* completed is kept in done until Discard drops it.  Metrics (incRequests,*)
(* observeDBTime) and log lines are left out: they write no response and   *)
(* make no call to storage or to the broker.                               *)
(***************************************************************************)
EXTENDS Integers, Sequences, FiniteSets, TLC

\* ------------------------------------------------------------------ bounds
\* Well-formed timestamps are TimeText(1) .. TimeText(MaxTime).
MaxTime == 2
\* Numeric page values range over -1 .. MaxPage.
MaxPage == 2
\* Numeric page_size values range over 0 .. MaxPageSize.
MaxPageSize == 1
\* The storage collaborator returns at most MaxRecords records.
MaxRecords == 1
\* Requests handled concurrently in SpecConc.
NumSlots == 2

VARIABLES
    verbosity,  \* the package-level variable of payloads.go:25
    pc,         \* per slot: where the request being handled stands
    cur,        \* per slot: the exchange of the request being handled
    done        \* the exchange that completed and is not yet discarded

vars == <<verbosity, pc, cur, done>>

Slots == 1..NumSlots

\* ------------------------------------------------------- string helpers
\* t occurs in s
Contains(s, t) ==
    \E k \in 1..(Len(s) - Len(t) + 1) : SubSeq(s, k, k + Len(t) - 1) = t

RECURSIVE Join(_, _)
Join(elems, sep) ==
    IF Len(elems) = 0 THEN ""
    ELSE IF Len(elems) = 1 THEN elems[1]
    ELSE elems[1] \o sep \o Join(Tail(elems), sep)

stringInSlice(a, list) == \E k \in 1..Len(list) : list[k] = a

\* ------------------------------------------------------------ whitelists
validAllSortBy == <<"created_at", "updated_at", "account">>
validIDSortBy == <<"date", "created_at", "service">>
validSortDir == <<"asc", "desc">>

\* ------------------------------------------------- parameter conversion
\* strconv.Atoi over the numerals of the model: the decimal text of n
\* converts to n, anything else is an error.
Numerals == (0 - 1)..(IF MaxPage > MaxPageSize THEN MaxPage ELSE MaxPageSize)

Atoi(s) ==
    IF \E n \in Numerals : ToString(n) = s
    THEN [ok |-> TRUE, n |-> CHOOSE n \in Numerals : ToString(n) = s]
    ELSE [ok |-> FALSE, n |-> 0]

\* The one recognised timestamp format: instant t is written TimeText(t).
TimeText(t) == "2021-01-0" \o ToString(t) \o "T00:00:00Z"

ParseTime(s) ==
    IF \E t \in 1..MaxTime : TimeText(t) = s
    THEN [ok |-> TRUE, t |-> CHOOSE t \in 1..MaxTime : TimeText(t) = s]
    ELSE [ok |-> FALSE, t |-> 0]

\* ------------------------------------------------------------- requests
PageStrs == {"", "x"} \cup {ToString(n) : n \in (0 - 1)..MaxPage}
SizeStrs == {"", "x"} \cup {ToString(n) : n \in 0..MaxPageSize}
SortByStrs == {"", "created_at", "date", "account", "bogus"}
SortDirStrs == {"", "asc", "desc", "up"}
TimeStrs == {"", "yesterday"} \cup {TimeText(t) : t \in 1..MaxTime}
VerbosityStrs == {"", "2"}
ReqIDs == {"abc", "a&b=c", "a\nb"}
Identities == {"", "reader", "archiver"}

\* An inbound HTTP request: the handler it is routed to, the path parameter,
\* the query parameters and the identity header.  An absent query parameter
\* reads as "" (url.Values.Get).
NoRequest ==
    [handler |-> "", request_id |-> "", page |-> "", page_size |-> "",
     sort_by |-> "", sort_dir |-> "", start_date |-> "", end_date |-> "",
     verbosity |-> "", identity |-> ""]

PayloadsRequests ==
    {[NoRequest EXCEPT !.handler = "Payloads", !.page = p, !.page_size = ps,
                       !.sort_by = sb, !.sort_dir = sd,
                       !.start_date = s, !.end_date = e] :
        p \in PageStrs, ps \in SizeStrs, sb \in SortByStrs, sd \in SortDirStrs,
        s \in TimeStrs, e \in TimeStrs}

RequestIdRequests ==
    {[NoRequest EXCEPT !.handler = "RequestIdPayloads", !.request_id = id,
                       !.verbosity = v, !.page = p, !.page_size = ps,
                       !.sort_by = sb, !.sort_dir = sd,
                       !.start_date = s, !.end_date = e] :
        id \in ReqIDs, v \in VerbosityStrs,
        p \in PageStrs, ps \in SizeStrs, sb \in SortByStrs, sd \in SortDirStrs,
        s \in TimeStrs, e \in TimeStrs}

ArchiveRequests ==
    {[NoRequest EXCEPT !.handler = "PayloadArchiveLink", !.request_id = id,
                       !.identity = h] :
        id \in ReqIDs, h \in Identities}

\* ------------------------------------------------- Parameter Normalizer
DefaultPage == 1
DefaultPageSize == 10
DefaultSortBy == "date"
DefaultSortDir == "desc"

NoQuery ==
    [Page |-> 0, PageSize |-> 0, SortBy |-> "", SortDir |-> "",
     HasStart |-> FALSE, StartDate |-> 0, HasEnd |-> FALSE, EndDate |-> 0]

\* initQuery: the descriptor with the defaults applied, or an error when a
\* value does not convert (page, page size, dates).  err = "" is Go's nil.
initQuery(r) ==
    LET page == Atoi(r.page)
        size == Atoi(r.page_size)
        from == ParseTime(r.start_date)
        to   == ParseTime(r.end_date)
    IN  IF r.page # "" /\ (~page.ok \/ page.n <= 0)
        THEN [err |-> "invalid page: " \o r.page, q |-> NoQuery]
        ELSE IF r.page_size # "" /\ (~size.ok \/ size.n <= 0)
        THEN [err |-> "invalid page_size: " \o r.page_size, q |-> NoQuery]
        ELSE IF r.start_date # "" /\ ~from.ok
        THEN [err |-> "invalid timestamp: " \o r.start_date, q |-> NoQuery]
        ELSE IF r.end_date # "" /\ ~to.ok
        THEN [err |-> "invalid timestamp: " \o r.end_date, q |-> NoQuery]
        ELSE [err |-> "",
              q |-> [Page      |-> IF r.page = "" THEN DefaultPage ELSE page.n,
                     PageSize  |-> IF r.page_size = "" THEN DefaultPageSize ELSE size.n,
                     SortBy    |-> IF r.sort_by = "" THEN DefaultSortBy ELSE r.sort_by,
                     SortDir   |-> IF r.sort_dir = "" THEN DefaultSortDir ELSE r.sort_dir,
                     HasStart  |-> r.start_date # "",
                     StartDate |-> from.t,
                     HasEnd    |-> r.end_date # "",
                     EndDate   |-> to.t]]

\* validTimestamps: a supplied range must have startDate <= endDate.  The
\* strict variant is the one meant for the by-correlation-id endpoint; what it
\* adds is that a one-sided range is refused.
validTimestamps(q, strict) ==
    /\ (q.HasStart /\ q.HasEnd) => q.StartDate <= q.EndDate
    /\ strict => (q.HasStart <=> q.HasEnd)

\* ------------------------------------------------------------ responses
\* getErrorBody: the error body {"message": ..., "status": ...} as JSON text.
getErrorBody(message, status) ==
    "{\"message\":\"" \o message \o "\",\"status\":" \o ToString(status) \o "}"

\* writeResponse appends one response to what the request's writer received.
writeResponse(w, code, body) == Append(w, [code |-> code, body |-> body])

StatusOK == 200
StatusBadRequest == 400
StatusUnauthorized == 401
StatusNotFound == 404
StatusInternalServerError == 500

\* ------------------------------------------------ storage collaborator
\* What the storage collaborator returns: a record sequence, possibly nil.
RecordSeqs == UNION {[1..n -> {"rec"}] : n \in 0..MaxRecords}
StorageResults ==
    {[isNil |-> TRUE, recs |-> <<>>]} \cup
    {[isNil |-> FALSE, recs |-> s] : s \in RecordSeqs}
Counts == {0, 35}

NoCall ==
    [op |-> "", reqID |-> "", page |-> 0, pageSize |-> 0, sortBy |-> "",
     sortDir |-> "", verbosity |-> "", q |-> NoQuery]

\* ------------------------------------------------------------------ JSON
\* JSON values: null, the empty array, and objects as their member sequence.
\* A member is a key with a string or a number as value text.
Member(k, t, v) == [k |-> k, t |-> t, v |-> v]
JsonNull == [kind |-> "null", members |-> <<>>]
JsonArray == [kind |-> "array", members |-> <<>>]
JsonObject(members) == [kind |-> "object", members |-> members]

Urls == {"", "https://s3/abc"}
MemberSeqs ==
    {<<>>, <<Member("message", "str", "not found")>>, <<Member("url", "num", "5")>>}
    \cup {<<Member("url", "str", u)>> : u \in Urls}
    \cup {<<Member("url", "str", u), Member("expires", "num", "60")>> : u \in Urls}
JsonValues == {JsonNull, JsonArray} \cup {JsonObject(ms) : ms \in MemberSeqs}

\* The encoder: the text of a value.
MemberText(m) ==
    "\"" \o m.k \o "\":" \o (IF m.t = "str" THEN "\"" \o m.v \o "\"" ELSE m.v)

JsonText(v) ==
    IF v.kind = "null" THEN "null"
    ELSE IF v.kind = "array" THEN "[]"
    ELSE "{" \o Join([k \in 1..Len(v.members) |-> MemberText(v.members[k])], ",") \o "}"

\* The decoder: a text is valid JSON when it is the text of a value.
JsonDecode(text) ==
    IF \E v \in JsonValues : JsonText(v) = text
    THEN [ok |-> TRUE, v |-> CHOOSE v \in JsonValues : JsonText(v) = text]
    ELSE [ok |-> FALSE, v |-> JsonNull]

\* structs.PayloadArchiveLink: the archive-link shape, one string field.
ZeroArchiveLink == [Url |-> ""]

\* json.Unmarshal(body, &payloadArchiveLink): invalid JSON is an error; null
\* leaves the struct unchanged; an array is a type error; of an object only
\* the member url is read, it must be a string, and other members are ignored.
Unmarshal(text) ==
    LET d  == JsonDecode(text)
        ms == d.v.members
        us == {k \in 1..Len(ms) : ms[k].k = "url"}
    IN  IF ~d.ok \/ d.v.kind = "array" THEN [ok |-> FALSE, s |-> ZeroArchiveLink]
        ELSE IF \E k \in us : ms[k].t # "str" THEN [ok |-> FALSE, s |-> ZeroArchiveLink]
        ELSE IF us = {} THEN [ok |-> TRUE, s |-> ZeroArchiveLink]
        ELSE [ok |-> TRUE, s |-> [Url |-> ms[CHOOSE k \in us : TRUE].v]]

\* json.Marshal(payloadArchiveLink)
Marshal(s) == JsonText(JsonObject(<<Member("url", "str", s.Url)>>))

\* -------------------------------------------------------- storage broker
StorageBrokerURL == "http://storage-broker:8080/archive/url"

\* What the body of the storage broker's response can be.
Bodies == {JsonText(v) : v \in JsonValues} \cup {"", "<html>Bad Gateway</html>"}
BrokerCodes == {200, 404}

\* The outcome of http.DefaultClient.Do and of reading the response body: a
\* transport error, or a response with a status code and a body that may fail
\* to be read.
NoOutcome == [err |-> FALSE, code |-> 0, body |-> "", readErr |-> FALSE]
BrokerOutcomes ==
    {[NoOutcome EXCEPT !.err = TRUE]} \cup
    {[NoOutcome EXCEPT !.code = c, !.body = b, !.readErr = re] :
        c \in BrokerCodes, b \in Bodies, re \in BOOLEAN}

\* --------------------------------------------------- Authorization Gate
RolesOf(identity) ==
    IF identity = "archiver" THEN {"platform-archive-download"}
    ELSE IF identity = "reader" THEN {"platform-reader"}
    ELSE {}

identityHasRole(identity, role) == role \in RolesOf(identity)

\* ------------------------------------------------------------- exchanges
\* The exchange of one request: the request, the descriptor q once initQuery
\* has built it, the storage calls made and what storage returned, how often
\* durations were computed, the outbound requests issued and the broker's
\* outcome, whether json.Marshal failed, whether the caller canceled the
\* inbound request, and the responses written.
NoExchange ==
    [r |-> NoRequest, hasQ |-> FALSE, q |-> NoQuery,
     storage |-> <<>>, ret |-> [isNil |-> TRUE, recs |-> <<>>], durations |-> 0,
     outbound |-> <<>>, down |-> NoOutcome, marshalErr |-> FALSE,
     canceled |-> FALSE, w |-> <<>>]

Exchange(r) == [NoExchange EXCEPT !.r = r]

Reply(x, code, body) == [x EXCEPT !.w = writeResponse(@, code, body)]

\* --------------------------------------------------------------- Payloads
\* Lines 44-47: there is a different default for sortBy when searching for
\* payloads.  PayloadsSortByKept leaves initQuery's default in place.
PayloadsSortByKept(sortBy, q) == q

PayloadsSortBy(sortBy, q) ==
    IF sortBy = "" THEN [q EXCEPT !.SortBy = "created_at"] ELSE q

\* Line 66: RetrievePayloads(q.Page, q.PageSize, q).  RetrievePayloadsCallOffset
\* passes a zero-based page.
RetrievePayloadsCallOffset(q) ==
    [NoCall EXCEPT !.op = "RetrievePayloads", !.page = q.Page - 1,
                   !.pageSize = q.PageSize, !.q = q]

RetrievePayloadsCall(q) ==
    [NoCall EXCEPT !.op = "RetrievePayloads", !.page = q.Page,
                   !.pageSize = q.PageSize, !.q = q]

\* PayloadsRun without the timestamp check.
PayloadsRunNoTimestamps(r, count, payloads, marshalErr) ==
    LET sortBy == r.sort_by
        iq     == initQuery(r)
        q      == IF sortBy = "" THEN [iq.q EXCEPT !.SortBy = "created_at"] ELSE iq.q
        x      == [Exchange(r) EXCEPT !.hasQ = TRUE, !.q = q]
        call   == [NoCall EXCEPT !.op = "RetrievePayloads", !.page = q.Page,
                                 !.pageSize = q.PageSize, !.q = q]
        xc     == [x EXCEPT !.storage = Append(@, call), !.ret = payloads,
                            !.marshalErr = marshalErr]
    IN  IF iq.err # ""
        THEN Reply(Exchange(r), StatusBadRequest,
                   getErrorBody(iq.err, StatusBadRequest))
        ELSE IF ~stringInSlice(q.SortBy, validAllSortBy)
        THEN Reply(x, StatusBadRequest,
                   getErrorBody("sort_by must be one of " \o Join(validAllSortBy, ", "),
                                StatusBadRequest))
        ELSE IF ~stringInSlice(q.SortDir, validSortDir)
        THEN Reply(x, StatusBadRequest,
                   getErrorBody("sort_dir must be one of " \o Join(validSortDir, ", "),
                                StatusBadRequest))
        ELSE IF marshalErr
        THEN Reply(xc, StatusInternalServerError,
                   getErrorBody("Internal Server Issue", StatusInternalServerError))
        ELSE Reply(xc, StatusOK,
                   "{\"count\":" \o ToString(count) \o ",\"data\":"
                       \o ToString(Len(payloads.recs)) \o "}")

\* The whole handler: count and payloads are what RetrievePayloads returns if
\* it is called, marshalErr whether json.Marshal fails.
PayloadsRun(r, count, payloads, marshalErr) ==
    LET sortBy == r.sort_by
        iq     == initQuery(r)
        q      == PayloadsSortBy(sortBy, iq.q)
        x      == [Exchange(r) EXCEPT !.hasQ = TRUE, !.q = q]
        call   == RetrievePayloadsCall(q)
        xc     == [x EXCEPT !.storage = Append(@, call), !.ret = payloads,
                            !.marshalErr = marshalErr]
    IN  IF iq.err # ""
        THEN Reply(Exchange(r), StatusBadRequest,
                   getErrorBody(iq.err, StatusBadRequest))
        ELSE IF ~stringInSlice(q.SortBy, validAllSortBy)
        THEN Reply(x, StatusBadRequest,
                   getErrorBody("sort_by must be one of " \o Join(validAllSortBy, ", "),
                                StatusBadRequest))
        ELSE IF ~stringInSlice(q.SortDir, validSortDir)
        THEN Reply(x, StatusBadRequest,
                   getErrorBody("sort_dir must be one of " \o Join(validSortDir, ", "),
                                StatusBadRequest))
        ELSE IF ~validTimestamps(q, FALSE)
        THEN Reply(x, StatusBadRequest,
                   getErrorBody("invalid timestamp format provided", StatusBadRequest))
        ELSE IF marshalErr
        THEN Reply(xc, StatusInternalServerError,
                   getErrorBody("Internal Server Issue", StatusInternalServerError))
        ELSE Reply(xc, StatusOK,
                   "{\"count\":" \o ToString(count) \o ",\"data\":"
                       \o ToString(Len(payloads.recs)) \o "}")

Payloads(i, requests) ==
    /\ pc[i] = "idle"
    /\ done = NoExchange
    /\ \E r \in requests, count \in Counts, payloads \in StorageResults,
          marshalErr \in BOOLEAN :
           done' = PayloadsRun(r, count, payloads, marshalErr)
    /\ UNCHANGED <<verbosity, pc, cur>>

\* ------------------------------------------------------ RequestIdPayloads
\* RequestIdValidate listing the other endpoint's whitelist in the sort_by
\* message.
RequestIdValidateOtherList(r) ==
    LET iq == initQuery(r)
        q  == iq.q
        x  == [Exchange(r) EXCEPT !.hasQ = TRUE, !.q = q]
    IN  IF iq.err # ""
        THEN [ok |-> FALSE,
              x |-> Reply(Exchange(r), StatusBadRequest,
                          getErrorBody(iq.err, StatusBadRequest))]
        ELSE IF ~stringInSlice(q.SortBy, validIDSortBy)
        THEN [ok |-> FALSE,
              x |-> Reply(x, StatusBadRequest,
                          getErrorBody("sort_by must be one of "
                                           \o Join(validAllSortBy, ", "),
                                       StatusBadRequest))]
        ELSE IF ~stringInSlice(q.SortDir, validSortDir)
        THEN [ok |-> FALSE,
              x |-> Reply(x, StatusBadRequest,
                          getErrorBody("sort_dir must be one of "
                                           \o Join(validSortDir, ", "),
                                       StatusBadRequest))]
        ELSE [ok |-> TRUE, x |-> x]

\* RequestIdValidate checking sort_dir before sort_by.
RequestIdValidateDirFirst(r) ==
    LET iq == initQuery(r)
        q  == iq.q
        x  == [Exchange(r) EXCEPT !.hasQ = TRUE, !.q = q]
    IN  IF iq.err # ""
        THEN [ok |-> FALSE,
              x |-> Reply(Exchange(r), StatusBadRequest,
                          getErrorBody(iq.err, StatusBadRequest))]
        ELSE IF ~stringInSlice(q.SortDir, validSortDir)
        THEN [ok |-> FALSE,
              x |-> Reply(x, StatusBadRequest,
                          getErrorBody("sort_dir must be one of "
                                           \o Join(validSortDir, ", "),
                                       StatusBadRequest))]
        ELSE IF ~stringInSlice(q.SortBy, validIDSortBy)
        THEN [ok |-> FALSE,
              x |-> Reply(x, StatusBadRequest,
                          getErrorBody("sort_by must be one of "
                                           \o Join(validIDSortBy, ", "),
                                       StatusBadRequest))]
        ELSE [ok |-> TRUE, x |-> x]

\* RequestIdValidate without the sort_dir check.
RequestIdValidateNoSortDir(r) ==
    LET iq == initQuery(r)
        q  == iq.q
        x  == [Exchange(r) EXCEPT !.hasQ = TRUE, !.q = q]
    IN  IF iq.err # ""
        THEN [ok |-> FALSE,
              x |-> Reply(Exchange(r), StatusBadRequest,
                          getErrorBody(iq.err, StatusBadRequest))]
        ELSE IF ~stringInSlice(q.SortBy, validIDSortBy)
        THEN [ok |-> FALSE,
              x |-> Reply(x, StatusBadRequest,
                          getErrorBody("sort_by must be one of "
                                           \o Join(validIDSortBy, ", "),
                                       StatusBadRequest))]
        ELSE [ok |-> TRUE, x |-> x]

\* Lines 85-104: the path parameter, the write of the package-level verbosity,
\* normalisation and validation.  ok says whether the handler goes on to the
\* storage call; otherwise x holds the 400 it answered with.
RequestIdValidate(r) ==
    LET iq == initQuery(r)
        q  == iq.q
        x  == [Exchange(r) EXCEPT !.hasQ = TRUE, !.q = q]
    IN  IF iq.err # ""
        THEN [ok |-> FALSE,
              x |-> Reply(Exchange(r), StatusBadRequest,
                          getErrorBody(iq.err, StatusBadRequest))]
        ELSE IF ~stringInSlice(q.SortBy, validIDSortBy)
        THEN [ok |-> FALSE,
              x |-> Reply(x, StatusBadRequest,
                          getErrorBody("sort_by must be one of "
                                           \o Join(validIDSortBy, ", "),
                                       StatusBadRequest))]
        ELSE IF ~stringInSlice(q.SortDir, validSortDir)
        THEN [ok |-> FALSE,
              x |-> Reply(x, StatusBadRequest,
                          getErrorBody("sort_dir must be one of "
                                           \o Join(validSortDir, ", "),
                                       StatusBadRequest))]
        ELSE [ok |-> TRUE, x |-> x]

RequestIdBegin(i, requests) ==
    /\ pc[i] = "idle"
    /\ done = NoExchange
    /\ \E r \in requests :
        LET v == RequestIdValidate(r)
        IN  /\ verbosity' = r.verbosity
            /\ IF v.ok
               THEN /\ pc' = [pc EXCEPT ![i] = "call"]
                    /\ cur' = [cur EXCEPT ![i] = v.x]
                    /\ UNCHANGED done
               ELSE /\ done' = v.x
                    /\ UNCHANGED <<pc, cur>>

\* RequestIdFinish testing the record sequence for nil only, not for length 0.
RequestIdFinishNilOnly(x, verb, payloads, marshalErr) ==
    LET reqID == x.r.request_id
        q     == x.q
        call  == [NoCall EXCEPT !.op = "RetrieveRequestIdPayloads", !.reqID = reqID,
                                !.sortBy = q.SortBy, !.sortDir = q.SortDir,
                                !.verbosity = verb]
        xc    == [x EXCEPT !.storage = Append(@, call), !.ret = payloads]
        xd    == [xc EXCEPT !.durations = @ + 1, !.marshalErr = marshalErr]
    IN  IF payloads.isNil
        THEN Reply(xc, StatusNotFound,
                   getErrorBody("payload with id: " \o reqID \o " not found",
                                StatusNotFound))
        ELSE IF marshalErr
        THEN Reply(xd, StatusInternalServerError,
                   getErrorBody("Internal Server Issue", StatusInternalServerError))
        ELSE Reply(xd, StatusOK,
                   "{\"data\":" \o ToString(Len(payloads.recs)) \o ",\"durations\":{}}")

\* RequestIdFinish without the return after the not-found answer.
RequestIdFinishNoReturn(x, verb, payloads, marshalErr) ==
    LET reqID == x.r.request_id
        q     == x.q
        call  == [NoCall EXCEPT !.op = "RetrieveRequestIdPayloads", !.reqID = reqID,
                                !.sortBy = q.SortBy, !.sortDir = q.SortDir,
                                !.verbosity = verb]
        xc    == [x EXCEPT !.storage = Append(@, call), !.ret = payloads]
        xn    == IF payloads.isNil \/ Len(payloads.recs) = 0
                 THEN Reply(xc, StatusNotFound,
                            getErrorBody("payload with id: " \o reqID \o " not found",
                                         StatusNotFound))
                 ELSE xc
        xd    == [xn EXCEPT !.durations = @ + 1, !.marshalErr = marshalErr]
    IN  IF marshalErr
        THEN Reply(xd, StatusInternalServerError,
                   getErrorBody("Internal Server Issue", StatusInternalServerError))
        ELSE Reply(xd, StatusOK,
                   "{\"data\":" \o ToString(Len(payloads.recs)) \o ",\"durations\":{}}")

\* Lines 106-124: the storage call with the verbosity read from the
\* package-level variable, the not-found answer, durations and the response.
RequestIdFinish(x, verb, payloads, marshalErr) ==
    LET reqID == x.r.request_id
        q     == x.q
        call  == [NoCall EXCEPT !.op = "RetrieveRequestIdPayloads", !.reqID = reqID,
                                !.sortBy = q.SortBy, !.sortDir = q.SortDir,
                                !.verbosity = verb]
        xc    == [x EXCEPT !.storage = Append(@, call), !.ret = payloads]
        xd    == [xc EXCEPT !.durations = @ + 1, !.marshalErr = marshalErr]
    IN  IF payloads.isNil \/ Len(payloads.recs) = 0
        THEN Reply(xc, StatusNotFound,
                   getErrorBody("payload with id: " \o reqID \o " not found",
                                StatusNotFound))
        ELSE IF marshalErr
        THEN Reply(xd, StatusInternalServerError,
                   getErrorBody("Internal Server Issue", StatusInternalServerError))
        ELSE Reply(xd, StatusOK,
                   "{\"data\":" \o ToString(Len(payloads.recs)) \o ",\"durations\":{}}")

\* The values a read of the package-level verbosity at line 106 can yield.  The
\* variable is written and read without synchronisation: besides its current
\* value, the read can yield the write of any request being handled at the
\* same time.
VerbosityRead(i) ==
    {verbosity} \cup {cur[j].r.verbosity : j \in {k \in Slots \ {i} : pc[k] = "call"}}

RequestIdCall(i) ==
    /\ pc[i] = "call"
    /\ done = NoExchange
    /\ \E verb \in VerbosityRead(i), payloads \in StorageResults, marshalErr \in BOOLEAN :
           done' = RequestIdFinish(cur[i], verb, payloads, marshalErr)
    /\ pc' = [pc EXCEPT ![i] = "idle"]
    /\ cur' = [cur EXCEPT ![i] = NoExchange]
    /\ UNCHANGED verbosity

\* ------------------------------------------------------ PayloadArchiveLink
\* http.NewRequest fails when the URL does not parse; of the characters a
\* correlation id is made of here, a control character makes it fail.
NewRequestFails(url) == Contains(url, "\n")

\* ArchivePrepare answering the missing role with status line 401 and a body
\* that says 403.
ArchivePrepareOtherStatus(r) ==
    LET x     == Exchange(r)
        reqID == r.request_id
        url   == StorageBrokerURL \o "?request_id=" \o reqID
        out   == [method |-> "GET", url |-> url, identity |-> r.identity]
    IN  IF ~identityHasRole(r.identity, "platform-archive-download")
        THEN [sent |-> FALSE,
              x |-> Reply(x, StatusUnauthorized, getErrorBody("Unauthorized", 403))]
        ELSE IF NewRequestFails(url)
        THEN [sent |-> FALSE,
              x |-> Reply(x, StatusInternalServerError,
                          getErrorBody("Error with Request ID",
                                       StatusInternalServerError))]
        ELSE [sent |-> TRUE, x |-> [x EXCEPT !.outbound = Append(@, out)]]

\* ArchivePrepare answering 401 only after the outbound request went out.
ArchivePrepareLateGate(r) ==
    LET x     == Exchange(r)
        reqID == r.request_id
        url   == StorageBrokerURL \o "?request_id=" \o reqID
        out   == [method |-> "GET", url |-> url, identity |-> r.identity]
        xs    == [x EXCEPT !.outbound = Append(@, out)]
    IN  IF NewRequestFails(url)
        THEN [sent |-> FALSE,
              x |-> Reply(x, StatusInternalServerError,
                          getErrorBody("Error with Request ID",
                                       StatusInternalServerError))]
        ELSE IF ~identityHasRole(r.identity, "platform-archive-download")
        THEN [sent |-> FALSE,
              x |-> Reply(xs, StatusUnauthorized,
                          getErrorBody("Unauthorized", StatusUnauthorized))]
        ELSE [sent |-> TRUE, x |-> xs]

\* Lines 130-146: authorisation, construction of the outbound request and its
\* dispatch.  sent says whether the request went out to the storage broker.
ArchivePrepare(r) ==
    LET x     == Exchange(r)
        reqID == r.request_id
        url   == StorageBrokerURL \o "?request_id=" \o reqID
        out   == [method |-> "GET", url |-> url, identity |-> r.identity]
    IN  IF ~identityHasRole(r.identity, "platform-archive-download")
        THEN [sent |-> FALSE,
              x |-> Reply(x, StatusUnauthorized,
                          getErrorBody("Unauthorized", StatusUnauthorized))]
        ELSE IF NewRequestFails(url)
        THEN [sent |-> FALSE,
              x |-> Reply(x, StatusInternalServerError,
                          getErrorBody("Error with Request ID",
                                       StatusInternalServerError))]
        ELSE [sent |-> TRUE, x |-> [x EXCEPT !.outbound = Append(@, out)]]

ArchiveBegin(i, requests) ==
    /\ pc[i] = "idle"
    /\ done = NoExchange
    /\ \E r \in requests :
        LET p == ArchivePrepare(r)
        IN  IF p.sent
            THEN /\ pc' = [pc EXCEPT ![i] = "wait"]
                 /\ cur' = [cur EXCEPT ![i] = p.x]
                 /\ UNCHANGED done
            ELSE /\ done' = p.x
                 /\ UNCHANGED <<pc, cur>>
    /\ UNCHANGED verbosity

\* ArchiveFinish quoting the downstream body in the decoding error.
ArchiveFinishQuotesBody(x, outcome, marshalErr) ==
    LET xo   == [x EXCEPT !.down = outcome]
        body == outcome.body
        u    == Unmarshal(body)
    IN  IF outcome.err
        THEN Reply(xo, StatusInternalServerError,
                   getErrorBody("Error fetching payload URL from storage-broker",
                                StatusInternalServerError))
        ELSE IF outcome.readErr
        THEN Reply(xo, StatusInternalServerError,
                   getErrorBody("Error reading response", StatusInternalServerError))
        ELSE IF ~u.ok
        THEN Reply(xo, StatusInternalServerError,
                   getErrorBody("Error unmarshaling the response: " \o body,
                                StatusInternalServerError))
        ELSE IF marshalErr
        THEN Reply([xo EXCEPT !.marshalErr = TRUE], StatusInternalServerError,
                   getErrorBody("Error converting parsed response to json",
                                StatusInternalServerError))
        ELSE Reply(xo, StatusOK, Marshal(u.s))

\* ArchiveFinish re-encoding a fresh struct instead of the decoded one.
ArchiveFinishFreshStruct(x, outcome, marshalErr) ==
    LET xo   == [x EXCEPT !.down = outcome]
        body == outcome.body
        u    == Unmarshal(body)
    IN  IF outcome.err
        THEN Reply(xo, StatusInternalServerError,
                   getErrorBody("Error fetching payload URL from storage-broker",
                                StatusInternalServerError))
        ELSE IF outcome.readErr
        THEN Reply(xo, StatusInternalServerError,
                   getErrorBody("Error reading response", StatusInternalServerError))
        ELSE IF ~u.ok
        THEN Reply(xo, StatusInternalServerError,
                   getErrorBody("Error unmarshaling the response",
                                StatusInternalServerError))
        ELSE IF marshalErr
        THEN Reply([xo EXCEPT !.marshalErr = TRUE], StatusInternalServerError,
                   getErrorBody("Error converting parsed response to json",
                                StatusInternalServerError))
        ELSE Reply(xo, StatusOK, Marshal(ZeroArchiveLink))

\* ArchiveFinish reporting a failed body read with the dispatch message.
ArchiveFinishSameMessage(x, outcome, marshalErr) ==
    LET xo   == [x EXCEPT !.down = outcome]
        body == outcome.body
        u    == Unmarshal(body)
    IN  IF outcome.err
        THEN Reply(xo, StatusInternalServerError,
                   getErrorBody("Error fetching payload URL from storage-broker",
                                StatusInternalServerError))
        ELSE IF outcome.readErr
        THEN Reply(xo, StatusInternalServerError,
                   getErrorBody("Error fetching payload URL from storage-broker",
                                StatusInternalServerError))
        ELSE IF ~u.ok
        THEN Reply(xo, StatusInternalServerError,
                   getErrorBody("Error unmarshaling the response",
                                StatusInternalServerError))
        ELSE IF marshalErr
        THEN Reply([xo EXCEPT !.marshalErr = TRUE], StatusInternalServerError,
                   getErrorBody("Error converting parsed response to json",
                                StatusInternalServerError))
        ELSE Reply(xo, StatusOK, Marshal(u.s))

\* Lines 146-176: the outcome of the dispatch, the body read, the decoding
\* into the archive-link struct and the re-encoding.  marshalErr is whether
\* json.Marshal of the struct fails.
ArchiveFinish(x, outcome, marshalErr) ==
    LET xo   == [x EXCEPT !.down = outcome]
        body == outcome.body
        u    == Unmarshal(body)
    IN  IF outcome.err
        THEN Reply(xo, StatusInternalServerError,
                   getErrorBody("Error fetching payload URL from storage-broker",
                                StatusInternalServerError))
        ELSE IF outcome.readErr
        THEN Reply(xo, StatusInternalServerError,
                   getErrorBody("Error reading response", StatusInternalServerError))
        ELSE IF ~u.ok
        THEN Reply(xo, StatusInternalServerError,
                   getErrorBody("Error unmarshaling the response",
                                StatusInternalServerError))
        ELSE IF marshalErr
        THEN Reply([xo EXCEPT !.marshalErr = TRUE], StatusInternalServerError,
                   getErrorBody("Error converting parsed response to json",
                                StatusInternalServerError))
        ELSE Reply(xo, StatusOK, Marshal(u.s))

\* http.DefaultClient.Do returns: the storage broker answered, or the
\* transport failed.  The request was built by http.NewRequest with no context
\* and the default client has no timeout, so nothing but this ends the wait.
BrokerAnswers(i) ==
    /\ pc[i] = "wait"
    /\ \E outcome \in BrokerOutcomes :
           cur' = [cur EXCEPT ![i].down = outcome]
    /\ pc' = [pc EXCEPT ![i] = "recv"]
    /\ UNCHANGED <<verbosity, done>>

ArchiveEnd(i) ==
    /\ pc[i] = "recv"
    /\ done = NoExchange
    /\ \E marshalErr \in BOOLEAN :
           done' = ArchiveFinish(cur[i], cur[i].down, marshalErr)
    /\ pc' = [pc EXCEPT ![i] = "idle"]
    /\ cur' = [cur EXCEPT ![i] = NoExchange]
    /\ UNCHANGED verbosity

\* The caller cancels the inbound request while the outbound call is in
\* flight.  The outbound request does not carry the inbound request's context
\* (line 138), so the call goes on and the handler stays where it is.
Cancel(i) ==
    /\ pc[i] = "wait"
    /\ ~cur[i].canceled
    /\ cur' = [cur EXCEPT ![i].canceled = TRUE]
    /\ UNCHANGED <<verbosity, pc, done>>

\* The response has been delivered and the request's objects are dropped.
Discard ==
    /\ done # NoExchange
    /\ done' = NoExchange
    /\ UNCHANGED <<verbosity, pc, cur>>

\* ------------------------------------------------------- specifications
Init ==
    /\ verbosity = "0"
    /\ pc = [i \in Slots |-> "idle"]
    /\ cur = [i \in Slots |-> NoExchange]
    /\ done = NoExchange

\* One request at a time, over all requests.
Next ==
    \/ Payloads(1, PayloadsRequests)
    \/ RequestIdBegin(1, RequestIdRequests)
    \/ RequestIdCall(1)
    \/ ArchiveBegin(1, ArchiveRequests)
    \/ BrokerAnswers(1)
    \/ ArchiveEnd(1)
    \/ Cancel(1)
    \/ Discard

Spec == Init /\ [][Next]_vars

\* Requests to the by-correlation-id endpoint handled concurrently, one per
\* slot; they differ in correlation id, verbosity and sort field.
ConcRequests ==
    {[NoRequest EXCEPT !.handler = "RequestIdPayloads", !.request_id = id,
                       !.verbosity = v, !.sort_by = sb] :
        id \in ReqIDs, v \in VerbosityStrs, sb \in {"", "bogus"}}

NextConc ==
    \/ \E i \in Slots : RequestIdBegin(i, ConcRequests)
    \/ \E i \in Slots : RequestIdCall(i)
    \/ Discard

SpecConc == Init /\ [][NextConc]_vars

\* The archive-link endpoint with the progress the scheduler guarantees: a
\* handler that can take its next step takes it, and a completed exchange is
\* dropped.  That the storage broker answers is not guaranteed.
NextLive ==
    \/ ArchiveBegin(1, ArchiveRequests)
    \/ BrokerAnswers(1)
    \/ ArchiveEnd(1)
    \/ Cancel(1)
    \/ Discard

SpecLive ==
    Init /\ [][NextLive]_vars /\ WF_vars(ArchiveEnd(1)) /\ WF_vars(Discard)

\* ----------------------------------------------------------------- claims
\* The exchange x was handled by handler h; it was answered once, with code.
HandledBy(x, h) == x.r.handler = h
Answered(x, code) == Len(x.w) = 1 /\ x.w[1].code = code
AnsweredWith(x, code, message) ==
    x.w = <<[code |-> code, body |-> getErrorBody(message, code)]>>

HasArchiveRole(x) == identityHasRole(x.r.identity, "platform-archive-download")

\* C1: a PayloadArchiveLink request whose caller lacks the role
\* platform-archive-download is answered 401 with the message "Unauthorized",
\* and no outbound request to the storage broker is issued for it.
C1_UnauthorizedNeverDispatches ==
    /\ (HandledBy(done, "PayloadArchiveLink") /\ ~HasArchiveRole(done)) =>
           /\ done.w = <<[code |-> 401,
                          body |-> "{\"message\":\"Unauthorized\",\"status\":401}"]>>
           /\ done.outbound = <<>>
    /\ \A i \in Slots : cur[i].outbound # <<>> => HasArchiveRole(cur[i])

C1_Witness ==
    /\ HandledBy(done, "PayloadArchiveLink")
    /\ done.r.identity = "reader"
    /\ Answered(done, 401)

\* C2: the verbosity passed to RetrieveRequestIdPayloads on behalf of a request
\* is that request's own verbosity query parameter, under every interleaving of
\* concurrently handled requests.
C2_OwnVerbosity ==
    \A k \in 1..Len(done.storage) :
        done.storage[k].op = "RetrieveRequestIdPayloads" =>
            done.storage[k].verbosity = done.r.verbosity

\* The whitelist of the endpoint an exchange belongs to.
Whitelist(x) == IF HandledBy(x, "Payloads") THEN validAllSortBy ELSE validIDSortBy
SortByMessage(x) == "sort_by must be one of " \o Join(Whitelist(x), ", ")
Listing(x) == HandledBy(x, "Payloads") \/ HandledBy(x, "RequestIdPayloads")

\* C3 as stated: every Payloads or RequestIdPayloads request whose sort_by is
\* not in the endpoint's whitelist is answered 400 with the message "sort_by
\* must be one of " and the whitelist, comma-separated, in its fixed order.
C3_Original ==
    (Listing(done) /\ done.r.sort_by # ""
        /\ ~stringInSlice(done.r.sort_by, Whitelist(done))) =>
        AnsweredWith(done, 400, SortByMessage(done))

\* C3 amended: the same, for the requests that pass parameter normalisation,
\* with sortBy the descriptor's sortBy after the endpoint's default is applied.
C3_SortByRejected ==
    (Listing(done) /\ done.hasQ /\ ~stringInSlice(done.q.SortBy, Whitelist(done))) =>
        /\ AnsweredWith(done, 400, SortByMessage(done))
        /\ done.storage = <<>>

C3_Witness ==
    /\ HandledBy(done, "RequestIdPayloads")
    /\ done.r.sort_by = "account"
    /\ done.w = <<[code |-> 400,
                   body |-> "{\"message\":\"sort_by must be one of date, created_at, service\",\"status\":400}"]>>

\* C4: a Payloads or RequestIdPayloads request whose sortDir is not asc or desc
\* is answered 400, whatever its other parameters are.
C4_SortDirRejected ==
    (Listing(done)
        /\ \/ done.r.sort_dir \notin {"", "asc", "desc"}
           \/ done.hasQ /\ done.q.SortDir \notin {"asc", "desc"}) =>
        /\ Answered(done, 400)
        /\ done.storage = <<>>

C4_Witness ==
    /\ HandledBy(done, "RequestIdPayloads")
    /\ done.r.sort_dir = "up"
    /\ AnsweredWith(done, 400, "sort_dir must be one of asc, desc")

\* The instants a request's start_date and end_date denote, when both parse.
BothDates(x) == ParseTime(x.r.start_date).ok /\ ParseTime(x.r.end_date).ok
StartOf(x) == ParseTime(x.r.start_date).t
EndOf(x) == ParseTime(x.r.end_date).t
TimestampError(x) == AnsweredWith(x, 400, "invalid timestamp format provided")

\* C5: on Payloads a request with startDate later than endDate is answered 400
\* whatever its other parameters are, and a request with startDate equal to
\* endDate is not rejected by the timestamp check.
C5_PayloadsDateRange ==
    (HandledBy(done, "Payloads") /\ BothDates(done)) =>
        /\ StartOf(done) > EndOf(done) => Answered(done, 400) /\ done.storage = <<>>
        /\ StartOf(done) = EndOf(done) => ~TimestampError(done)
        /\ (StartOf(done) = EndOf(done) /\ done.r.page = "" /\ done.r.page_size = ""
              /\ done.r.sort_by = "" /\ done.r.sort_dir = "") => Len(done.storage) = 1

C5_Witness ==
    /\ HandledBy(done, "Payloads")
    /\ BothDates(done)
    /\ StartOf(done) > EndOf(done)
    /\ TimestampError(done)

\* C6: on RequestIdPayloads a request whose supplied startDate or endDate is
\* malformed, or whose startDate is later than its endDate, is answered 400 and
\* RetrieveRequestIdPayloads is not called.
C6_RequestIdDateRange ==
    (HandledBy(done, "RequestIdPayloads")
        /\ \/ done.r.start_date # "" /\ ~ParseTime(done.r.start_date).ok
           \/ done.r.end_date # "" /\ ~ParseTime(done.r.end_date).ok
           \/ BothDates(done) /\ StartOf(done) > EndOf(done)) =>
        /\ Answered(done, 400)
        /\ done.storage = <<>>

\* C7: a RequestIdPayloads request that passed validation is answered 404, with
\* a message containing the correlation id and without computing durations,
\* when storage returns a nil or empty record sequence; when storage returns
\* at least one record it is not answered 404.
C7_NotFound ==
    (HandledBy(done, "RequestIdPayloads") /\ done.storage # <<>>) =>
        IF done.ret.isNil \/ Len(done.ret.recs) = 0
        THEN /\ Answered(done, 404)
             /\ Contains(done.w[1].body, done.r.request_id)
             /\ done.durations = 0
        ELSE /\ Len(done.w) = 1
             /\ done.w[1].code # 404
             /\ done.durations = 1

C7_Witness ==
    /\ HandledBy(done, "RequestIdPayloads")
    /\ ~done.ret.isNil
    /\ done.ret.recs = <<>>
    /\ done.w = <<[code |-> 404,
                   body |-> "{\"message\":\"payload with id: abc not found\",\"status\":404}"]>>

\* The storage broker was reached and its call succeeded: no transport error,
\* status 200, the body read and decodable.
Dispatched(x) == HandledBy(x, "PayloadArchiveLink") /\ x.outbound # <<>>
BrokerSucceeded(x) ==
    /\ ~x.down.err
    /\ x.down.code = 200
    /\ ~x.down.readErr
    /\ Unmarshal(x.down.body).ok

\* C8: for an authorized caller every downstream failure, the broker answering
\* with a failure included, results in a 500, and a 200 is emitted only when
\* the storage-broker call succeeded.
C8_DownstreamFailureIs500 ==
    Dispatched(done) =>
        /\ ~BrokerSucceeded(done) => Answered(done, 500)
        /\ Answered(done, 200) => BrokerSucceeded(done)

\* A response with a body was received from the storage broker.
BodyReceived(x) == Dispatched(x) /\ ~x.down.err

\* C9: when the storage broker's response body does not decode as JSON of the
\* archive-link shape, the handler answers 500 and the raw downstream body is
\* in no response written to the caller.
C9_UndecodableBodyIs500 ==
    (BodyReceived(done) /\ ~Unmarshal(done.down.body).ok) =>
        /\ Answered(done, 500)
        /\ done.down.body # "" =>
               \A k \in 1..Len(done.w) : ~Contains(done.w[k].body, done.down.body)

C9_Witness ==
    /\ BodyReceived(done)
    /\ ~done.down.readErr
    /\ done.down.body = "<html>Bad Gateway</html>"
    /\ AnsweredWith(done, 500, "Error unmarshaling the response")

C11_PageAndSize ==
    HandledBy(done, "Payloads") =>
        LET p == Atoi(done.r.page)
            s == Atoi(done.r.page_size)
        IN  /\ (p.ok /\ p.n >= 1 /\ s.ok /\ s.n >= 1 /\ ~Answered(done, 400)) =>
                   /\ Len(done.storage) = 1
                   /\ done.storage[1].op = "RetrievePayloads"
                   /\ done.storage[1].page = p.n
                   /\ done.storage[1].pageSize = s.n
                   /\ done.storage[1].q.Page = p.n
                   /\ done.storage[1].q.PageSize = s.n
            /\ ((p.ok /\ p.n <= 0) \/ (s.ok /\ s.n <= 0)) =>
                   /\ Answered(done, 400)
                   /\ done.storage = <<>>

C11_Witness ==
    /\ HandledBy(done, "Payloads")
    /\ done.r.page = "2"
    /\ done.r.page_size = "1"
    /\ Len(done.storage) = 1
    /\ done.storage[1].page = 2
    /\ done.storage[1].pageSize = 1

\* s ends with t
EndsWith(s, t) == Len(s) >= Len(t) /\ SubSeq(s, Len(s) - Len(t) + 1, Len(s)) = t

\* The status integers an error body's text carries in its status member.
StatusCodes == {200, 400, 401, 403, 404, 500}
BodyStatus(body) ==
    {n \in StatusCodes : EndsWith(body, ",\"status\":" \o ToString(n) \o "}")}

\* C12: in every error response written by Payloads, RequestIdPayloads or
\* PayloadArchiveLink the status integer inside the error body equals the HTTP
\* status code of the response.
C12_StatusMirrored ==
    \A k \in 1..Len(done.w) :
        done.w[k].code # 200 => BodyStatus(done.w[k].body) = {done.w[k].code}

C12_Witness ==
    /\ HandledBy(done, "PayloadArchiveLink")
    /\ Len(done.w) = 1
    /\ done.w[1].code = 401
    /\ BodyStatus(done.w[1].body) = {401}

\* C13: every authorized archive-link request eventually ends with a response,
\* even when the storage broker never answers: the outbound call respects a
\* timeout and the request then ends like a dispatch failure.
C13_EventuallyAnswered ==
    \A i \in Slots : (pc[i] = "wait") ~> (pc[i] = "idle")

\* C14: when the caller cancels the inbound archive-link request while the
\* outbound storage-broker call is in flight, the outbound call is canceled
\* too, and no 200 is written for the canceled request.
C14_CancelPropagates ==
    /\ \A i \in Slots : cur[i].canceled => pc[i] # "wait"
    /\ done.canceled => \A k \in 1..Len(done.w) : done.w[k].code # 200

\* C15: Payloads and RequestIdPayloads check in the order normalisation, sortBy
\* whitelist, sortDir, then (Payloads) timestamps, and stop at the first
\* failure: the one error reported is that of the earliest failing check.
C15_FirstFailureReported ==
    Listing(done) =>
        IF initQuery(done.r).err # ""
        THEN AnsweredWith(done, 400, initQuery(done.r).err)
        ELSE IF ~stringInSlice(done.q.SortBy, Whitelist(done))
        THEN AnsweredWith(done, 400, SortByMessage(done))
        ELSE IF done.q.SortDir \notin {"asc", "desc"}
        THEN AnsweredWith(done, 400, "sort_dir must be one of asc, desc")
        ELSE IF HandledBy(done, "Payloads") /\ BothDates(done)
                /\ StartOf(done) > EndOf(done)
        THEN TimestampError(done)
        ELSE Len(done.w) = 1 /\ done.w[1].code # 400

C15_Witness ==
    /\ HandledBy(done, "RequestIdPayloads")
    /\ done.r.sort_by = "bogus"
    /\ done.r.sort_dir = "up"
    /\ AnsweredWith(done, 400, "sort_by must be one of date, created_at, service")

\* C16: on Payloads, a request without sort_by has sortBy = created_at from the
\* whitelist check onwards: it is never rejected by the sortBy check and
\* RetrievePayloads, if reached, receives sortBy = created_at; a supplied
\* sort_by is never replaced by the default.
C16_DefaultSortBy ==
    (HandledBy(done, "Payloads") /\ done.hasQ) =>
        /\ done.r.sort_by = "" =>
               /\ done.q.SortBy = "created_at"
               /\ ~AnsweredWith(done, 400, SortByMessage(done))
        /\ done.r.sort_by # "" => done.q.SortBy = done.r.sort_by
        /\ \A k \in 1..Len(done.storage) :
               done.storage[k].q.SortBy =
                   IF done.r.sort_by = "" THEN "created_at" ELSE done.r.sort_by

C16_Witness ==
    /\ HandledBy(done, "Payloads")
    /\ done.r.sort_by = ""
    /\ Len(done.storage) = 1
    /\ done.storage[1].op = "RetrievePayloads"
    /\ done.storage[1].q.SortBy = "created_at"
    /\ Answered(done, 200)

\* The stage at which a completed PayloadArchiveLink exchange ended, read off
\* what the exchange did.
ArchiveStage(x) ==
    IF ~HasArchiveRole(x) THEN "Authorize"
    ELSE IF x.outbound = <<>> THEN "BuildRequest"
    ELSE IF x.down.err THEN "Dispatch"
    ELSE IF x.down.readErr THEN "ReadBody"
    ELSE IF ~Unmarshal(x.down.body).ok THEN "Parse"
    ELSE IF x.marshalErr THEN "Reemit"
    ELSE "Done"

\* C17: in PayloadArchiveLink each failing stage has its own error body: the
\* request-construction, dispatch, body-read, decode and re-encode failures
\* answer 500 with a message no other stage uses, the missing role is the only
\* path answering 401, and a stage is entered only after the earlier ones
\* succeeded.
C17_StageMessages ==
    /\ HandledBy(done, "PayloadArchiveLink") =>
           /\ Len(done.w) = 1
           /\ Answered(done, 401) <=> ArchiveStage(done) = "Authorize"
           /\ AnsweredWith(done, 401, "Unauthorized")
                  <=> ArchiveStage(done) = "Authorize"
           /\ AnsweredWith(done, 500, "Error with Request ID")
                  <=> ArchiveStage(done) = "BuildRequest"
           /\ AnsweredWith(done, 500, "Error fetching payload URL from storage-broker")
                  <=> ArchiveStage(done) = "Dispatch"
           /\ AnsweredWith(done, 500, "Error reading response")
                  <=> ArchiveStage(done) = "ReadBody"
           /\ AnsweredWith(done, 500, "Error unmarshaling the response")
                  <=> ArchiveStage(done) = "Parse"
           /\ AnsweredWith(done, 500, "Error converting parsed response to json")
                  <=> ArchiveStage(done) = "Reemit"
           /\ Answered(done, 200) <=> ArchiveStage(done) = "Done"
           /\ done.outbound # <<>> =>
                  HasArchiveRole(done) /\ ~Contains(done.r.request_id, "\n")
           /\ done.down # NoOutcome => done.outbound # <<>>
           /\ done.marshalErr =>
                  /\ ~done.down.err /\ ~done.down.readErr
                  /\ Unmarshal(done.down.body).ok
    /\ \A i \in Slots :
           (HandledBy(cur[i], "PayloadArchiveLink") /\ cur[i].down # NoOutcome) =>
               cur[i].outbound # <<>> /\ HasArchiveRole(cur[i])

C17_Witness ==
    /\ HandledBy(done, "PayloadArchiveLink")
    /\ done.outbound # <<>>
    /\ done.down.readErr
    /\ AnsweredWith(done, 500, "Error reading response")

\* How the receiver of a URL reads it: the base before the first "?", the
\* query after it, the query's parameters separated by "&", each a key and a
\* value separated by its first "=".
IndexOf(s, ch) ==
    IF Contains(s, ch)
    THEN CHOOSE k \in 1..Len(s) :
             /\ SubSeq(s, k, k) = ch
             /\ \A j \in 1..(k - 1) : SubSeq(s, j, j) # ch
    ELSE 0

RECURSIVE Split(_, _)
Split(s, ch) ==
    LET k == IndexOf(s, ch)
    IN  IF k = 0 THEN <<s>>
        ELSE <<SubSeq(s, 1, k - 1)>> \o Split(SubSeq(s, k + 1, Len(s)), ch)

UrlBase(url) ==
    LET k == IndexOf(url, "?")
    IN  IF k = 0 THEN url ELSE SubSeq(url, 1, k - 1)

UrlQuery(url) ==
    LET k == IndexOf(url, "?")
    IN  IF k = 0 THEN "" ELSE SubSeq(url, k + 1, Len(url))

QueryPair(p) ==
    LET k == IndexOf(p, "=")
    IN  IF k = 0 THEN [key |-> p, value |-> ""]
        ELSE [key |-> SubSeq(p, 1, k - 1), value |-> SubSeq(p, k + 1, Len(p))]

ParseQuery(query) ==
    LET parts == Split(query, "&")
    IN  [k \in 1..Len(parts) |-> QueryPair(parts[k])]

OutboundWellFormed(x) ==
    \A k \in 1..Len(x.outbound) :
        /\ x.outbound[k].method = "GET"
        /\ UrlBase(x.outbound[k].url) = StorageBrokerURL
        /\ ParseQuery(UrlQuery(x.outbound[k].url))
               = <<[key |-> "request_id", value |-> x.r.request_id]>>

\* C18: for every correlation id the outbound request of PayloadArchiveLink is
\* a GET to the storage-broker base URL whose query is exactly one parameter,
\* request_id, with the correlation id as its value.
C18_SingleQueryParameter ==
    /\ OutboundWellFormed(done)
    /\ \A i \in Slots : OutboundWellFormed(cur[i])

\* The checks a listing request has passed when its handler reaches storage.
Validated(x) ==
    /\ Listing(x)
    /\ initQuery(x.r).err = ""
    /\ x.hasQ
    /\ stringInSlice(x.q.SortBy, Whitelist(x))
    /\ x.q.SortDir \in {"asc", "desc"}
    /\ HandledBy(x, "Payloads") =>
           ~(x.q.HasStart /\ x.q.HasEnd /\ x.q.StartDate > x.q.EndDate)

StorageOnlyValidated(x) ==
    /\ Len(x.storage) <= 1
    /\ x.storage # <<>> =>
           /\ Validated(x)
           /\ x.storage[1].op = IF HandledBy(x, "Payloads")
                                THEN "RetrievePayloads"
                                ELSE "RetrieveRequestIdPayloads"
    /\ (\E k \in 1..Len(x.w) : x.w[k].code = 400) => x.storage = <<>>

\* C19: storage is queried only for validated requests: RetrievePayloads after
\* normalisation, the sortBy, sortDir and timestamp checks succeeded,
\* RetrieveRequestIdPayloads after normalisation, the sortBy and sortDir checks
\* succeeded; a request answered 400 caused no storage call, and a request
\* causes at most one storage call.
C19_StorageOnlyValidated ==
    /\ StorageOnlyValidated(done)
    /\ \A i \in Slots :
           /\ StorageOnlyValidated(cur[i])
           /\ pc[i] = "call" => Validated(cur[i])

C19_Witness ==
    /\ HandledBy(done, "Payloads")
    /\ done.r.start_date # "" /\ done.r.end_date # ""
    /\ done.r.sort_by = "account" /\ done.r.sort_dir = "asc"
    /\ Len(done.storage) = 1
    /\ done.storage[1].op = "RetrievePayloads"

\* C20: on every path of Payloads, RequestIdPayloads and PayloadArchiveLink the
\* handler calls writeResponse exactly once before it returns: a completed
\* exchange has one response, an error response is the last thing written, and
\* a handler still running has written nothing.
C20_WritesOnce ==
    /\ done # NoExchange =>
           /\ done.r.handler \in {"Payloads", "RequestIdPayloads", "PayloadArchiveLink"}
           /\ Len(done.w) = 1
    /\ \A k \in 1..Len(done.w) : done.w[k].code # 200 => k = Len(done.w)
    /\ \A i \in Slots : pc[i] # "idle" => cur[i].w = <<>>
    /\ \A i \in Slots : pc[i] = "idle" => cur[i] = NoExchange

C20_Witness ==
    /\ HandledBy(done, "RequestIdPayloads")
    /\ done.storage # <<>>
    /\ done.ret.recs = <<>>
    /\ done.w = <<[code |-> 404,
                   body |-> getErrorBody("payload with id: " \o done.r.request_id
                                             \o " not found", 404)]>>
====
